---- MODULE Spec2Model ----
(***************************************************************************)
(* Dynamics-Of-Celestial-Bodies: the solver drivers of ModelFunctions.py   *)
(* (Earth2DModelSolver, CoupledTwoBodySolver, CoupledThreeBodySolver) and  *)
(* the fixed-step RK4 integrator and force models they call.               *)
(*                                                                         *)
(* Numbers.  Python floats are modelled by exact arithmetic:               *)
(*   - times, step sizes and the free-fall state are exact rationals       *)
(*     <<numerator, denominator>> in lowest terms, denominator > 0;        *)
(*   - the components of an n-body state are elements of the prime field   *)
(*     GF(P).  The exact rational values of a gravitational trajectory     *)
(*     outgrow every machine integer within two steps; GF(P) is the        *)
(*     homomorphic image of exact arithmetic (every identity of +,-,*,/    *)
(*     over the rationals whose denominators are not multiples of P holds  *)
(*     in GF(P)), and it keeps all values below 2^16.                      *)
(* Floating-point rounding is outside the model.                           *)
(***************************************************************************)
EXTENDS Integers, Sequences, FiniteSets, TLC

VARIABLES pc, solver, args, h, t, s, hist, time, ret, first

\* the stepper seen stage by stage: the number of stage derivatives of the
\* current step computed so far, those derivatives, and the number of force
\* model calls made besides them during the solve
VARIABLES stage, ks, evals

stageVars == <<stage, ks, evals>>

\* a second solve call running at the same time: its own pc, solver, args, h, t,
\* s, hist, time and ret
VARIABLES other

\* The Two Body window, and the plot window its Calculate button opened
\* last.
VARIABLES win, posPlot

\* The axes of a two-body position plot: the trajectories drawn on them
\* and the limits set.
VARIABLES axes

\* everything that is not a local variable of the first solve call
beside == <<other, win, posPlot, axes>>

solveVars == <<pc, solver, args, h, t, s, hist, time, ret, first, stageVars>>

vars == <<solveVars, beside>>

(***************************************************************************)
(* Exact rational arithmetic                                               *)
(***************************************************************************)
Abs(n) == IF n < 0 THEN -n ELSE n

RECURSIVE GCD(_, _)
GCD(a, b) == IF b = 0 THEN a ELSE GCD(b, a % b)

\* lowest terms, positive denominator
RNorm(n, d) ==
    LET g == GCD(Abs(n), Abs(d))
        sgn == IF d < 0 THEN -1 ELSE 1
    IN  <<sgn * (n \div g), sgn * (d \div g)>>

R(n) == <<n, 1>>

RAdd(a, b) ==
    LET l == (a[2] \div GCD(a[2], b[2])) * b[2]
    IN  RNorm(a[1] * (l \div a[2]) + b[1] * (l \div b[2]), l)

RNeg(a) == <<-a[1], a[2]>>

RSub(a, b) == RAdd(a, RNeg(b))

RMul(a, b) ==
    LET g1 == GCD(Abs(a[1]), b[2])
        g2 == GCD(Abs(b[1]), a[2])
    IN  RNorm((a[1] \div g1) * (b[1] \div g2), (a[2] \div g2) * (b[2] \div g1))

RDiv(a, b) == RMul(a, IF b[1] < 0 THEN <<-b[2], -b[1]>> ELSE <<b[2], b[1]>>)

RLess(a, b) == RSub(a, b)[1] < 0

(***************************************************************************)
(* Arithmetic of the prime field GF(P), with one absorbing non-finite      *)
(* element NonFinite (the result of a division by zero and of every        *)
(* operation on it, as NaN in floating point).                             *)
(***************************************************************************)
P == 46327

NonFinite == -1

F(n) == n % P

FAdd(a, b) == IF a = NonFinite \/ b = NonFinite THEN NonFinite ELSE (a + b) % P

FSub(a, b) == IF a = NonFinite \/ b = NonFinite THEN NonFinite ELSE (a - b) % P

FMul(a, b) == IF a = NonFinite \/ b = NonFinite THEN NonFinite ELSE (a * b) % P

RECURSIVE FPow(_, _)
FPow(b, e) ==
    IF e = 0 THEN 1
    ELSE LET r == FPow(b, e \div 2)
             q == (r * r) % P
         IN  IF e % 2 = 1 THEN (q * b) % P ELSE q

\* b^(P-2) is the inverse of b /= 0
FDiv(a, b) ==
    IF a = NonFinite \/ b = NonFinite \/ b = 0 THEN NonFinite
    ELSE (a * FPow(b, P - 2)) % P

\* P = 3 (mod 4): x^((P+1)/4) is a square root of x when x is a square.  Of the
\* two roots r and P - r the one in 0..(P-1)/2 is taken: the root of n*n is n
\* for every small integer n >= 0, as the non-negative root is in the reals.
FSqrt(x) ==
    IF x = NonFinite THEN NonFinite
    ELSE LET r == FPow(x, (P + 1) \div 4)
         IN  IF 2 * r < P THEN r ELSE P - r

\* the field element of an exact rational
FromRat(q) == FDiv(q[1] % P, q[2] % P)

(***************************************************************************)
(* Element-wise vector operations over the whole state vector              *)
(***************************************************************************)
\* a vector given element by element, as the array of its elements
Vector(f) == f \o <<>>

RVAdd(u, v) == Vector([i \in DOMAIN u |-> RAdd(u[i], v[i])])

RVScale(c, v) == Vector([i \in DOMAIN v |-> RMul(c, v[i])])

FVAdd(u, v) == Vector([i \in DOMAIN u |-> FAdd(u[i], v[i])])

FVScale(c, v) == Vector([i \in DOMAIN v |-> FMul(c, v[i])])

(***************************************************************************)
(* Force models: (masses, state) -> derivative of the state                *)
(***************************************************************************)
\* the fixed gravitational acceleration of the free-fall model, 9.8
GRAVITY == <<49, 5>>

\* the gravitational constant, 6.6743e-11, as a field element
BIG_G == FDiv(F(66743), FPow(10, 15))

\* free fall: (height, velocity) -> (velocity, -g)
Earth2DForceModel(st) == <<st[2], RNeg(GRAVITY)>>

\* n-body state layout: positions of body 1..n, then velocities of body 1..n,
\* three components each
PosSlot(b, c) == 3 * (b - 1) + c

VelSlot(n, b, c) == 3 * n + 3 * (b - 1) + c

\* G * otherMass * (otherPosition - thisPosition) / |otherPosition - thisPosition|^3,
\* component c, for this = body i and other = body j
PairAccel(m, st, i, j, c) ==
    LET dx == FSub(st[PosSlot(j, 1)], st[PosSlot(i, 1)])
        dy == FSub(st[PosSlot(j, 2)], st[PosSlot(i, 2)])
        dz == FSub(st[PosSlot(j, 3)], st[PosSlot(i, 3)])
        d2 == FAdd(FAdd(FMul(dx, dx), FMul(dy, dy)), FMul(dz, dz))
        d3 == FMul(d2, FSqrt(d2))
    IN  FDiv(FMul(FMul(BIG_G, m[j]),
                  FSub(st[PosSlot(j, c)], st[PosSlot(i, c)])), d3)

\* two bodies: (velocity1, velocity2, acceleration1, acceleration2)
TwoCoupledBodies(m, st) ==
    Vector([q \in 1..12 |->
        IF q <= 6 THEN st[q + 6]
        ELSE LET b == ((q - 7) \div 3) + 1
                 c == ((q - 7) % 3) + 1
             IN  PairAccel(m, st, b, 3 - b, c)])

\* three bodies: each body accumulates the pull of the two others
ThreeCoupledBodies(m, st) ==
    Vector([q \in 1..18 |->
        IF q <= 9 THEN st[q + 9]
        ELSE LET b == ((q - 10) \div 3) + 1
                 c == ((q - 10) % 3) + 1
                 o1 == (b % 3) + 1
                 o2 == ((b + 1) % 3) + 1
             IN  FAdd(PairAccel(m, st, b, o1, c), PairAccel(m, st, b, o2, c))])

(***************************************************************************)
(* RK4 stepper: one step of size hh                                        *)
(***************************************************************************)
\* the 2-element (height, velocity) state, exact rationals
RK42ndStep(st, hh) ==
    LET k1 == Earth2DForceModel(st)
        k2 == Earth2DForceModel(RVAdd(st, RVScale(RDiv(hh, R(2)), k1)))
        k3 == Earth2DForceModel(RVAdd(st, RVScale(RDiv(hh, R(2)), k2)))
        k4 == Earth2DForceModel(RVAdd(st, RVScale(hh, k3)))
    IN  RVAdd(st, RVScale(RDiv(hh, R(6)),
              RVAdd(RVAdd(k1, RVScale(R(2), k2)), RVAdd(RVScale(R(2), k3), k4))))

\* mutant: the two-body force model handed the two masses in exchanged order
ForceModelExchanged(sv, m, st) ==
    IF sv = "TwoBody" THEN TwoCoupledBodies(<<m[2], m[1]>>, st)
    ELSE ThreeCoupledBodies(m, st)

\* mutant: the three-body force model handed the masses one place round
ForceModelRotated(sv, m, st) ==
    IF sv = "TwoBody" THEN TwoCoupledBodies(m, st)
    ELSE ThreeCoupledBodies(<<m[2], m[3], m[1]>>, st)

\* the force model each n-body driver hands to its stepper, with the masses
ForceModel(sv, m, st) ==
    IF sv = "TwoBody" THEN TwoCoupledBodies(m, st)
    ELSE ThreeCoupledBodies(m, st)

\* the 12- or 18-element state, GF(P), under the force model of driver sv
RK4NBodyStep(sv, m, st, hh) ==
    LET half == FDiv(hh, 2)
        k1 == ForceModel(sv, m, st)
        k2 == ForceModel(sv, m, FVAdd(st, FVScale(half, k1)))
        k3 == ForceModel(sv, m, FVAdd(st, FVScale(half, k2)))
        k4 == ForceModel(sv, m, FVAdd(st, FVScale(hh, k3)))
    IN  FVAdd(st, FVScale(FDiv(hh, 6),
              FVAdd(FVAdd(k1, FVScale(2, k2)), FVAdd(FVScale(2, k3), k4))))

RK4TwoBodyStep(m, st, hh) == RK4NBodyStep("TwoBody", m, st, hh)

RK4ThreeBodyStep(m, st, hh) == RK4NBodyStep("ThreeBody", m, st, hh)

(***************************************************************************)
(* Solver drivers (ModelFunctions.py)                                      *)
(***************************************************************************)
\* step count of the two- and three-body drivers.  ModelFunctions.py divides by
\* 10000; the model runs the same drivers with a scaled-down count.
NBodySteps == 3

\* mutant: the span taken from 0 instead of t0
Earth2DStepSizeNoT0(t0, tn) == RDiv(tn, R(1000))

\* h = (tn - t0) / 1000
Earth2DStepSize(t0, tn) == RDiv(RSub(tn, t0), R(1000))

\* mutant: one step too many in the divisor
TwoBodyStepSizeOff(t0, tn) == RDiv(RSub(tn, t0), R(NBodySteps + 1))

\* h = (tn - t0) / 10000 (scaled: NBodySteps)
TwoBodyStepSize(t0, tn) == RDiv(RSub(tn, t0), R(NBodySteps))

\* mutant: the span taken one time unit too long
ThreeBodyStepSizeLong(t0, tn) == RDiv(RAdd(tn, R(1)), R(NBodySteps))

ThreeBodyStepSize(t0, tn) == RDiv(RSub(tn, t0), R(NBodySteps))

\* mutant: position and velocity returned in exchanged order
Earth2DReturnExchanged(r) == <<r[2], r[1], r[3]>>

\* ypos, yvelo, time = RK42nd(...); return ypos, yvelo, time
Earth2DReturn(r) == <<r[1], r[2], r[3]>>

\* mutant: the velocity of mass 1 returned in the place of mass 2 as well
TwoBodyReturnRepeated(r) == <<r[1], r[2], r[3], r[3], r[5]>>

\* mutant: non-finite values of the result replaced by 0
TwoBodyReturnFinite(r) ==
    LET Finite(q) == [c \in 1..3 |-> [k \in 1..Len(q[c]) |->
                        IF q[c][k] = NonFinite THEN 0 ELSE q[c][k]]]
    IN  <<Finite(r[1]), Finite(r[2]), Finite(r[3]), Finite(r[4]), r[5]>>

\* mutant: the two position entries returned in exchanged order
TwoBodyReturnExchanged(r) == <<r[2], r[1], r[3], r[4], r[5]>>

\* return mass1Pos, mass2Pos, mass1Vel, mass2Vel, time
TwoBodyReturn(r) == <<r[1], r[2], r[3], r[4], r[5]>>

\* mutant: the velocities of mass 1 and mass 2 returned in exchanged order
ThreeBodyReturnExchanged(r) == <<r[1], r[2], r[3], r[5], r[4], r[6], r[7]>>

\* return mass1Pos, mass2Pos, mass3Pos, mass1Vel, mass2Vel, mass3Vel, timeVals
ThreeBodyReturn(r) == <<r[1], r[2], r[3], r[4], r[5], r[6], r[7]>>

\* number of bodies of a solver
Bodies(sv) == IF sv = "TwoBody" THEN 2 ELSE IF sv = "ThreeBody" THEN 3 ELSE 1

\* the state vector the stepper starts from
\* Earth2D: (ic[0], ic[1]); n-body: the rows of ic, positions first, flattened
InitialState(sv, ic) ==
    IF sv = "Earth2D" THEN <<ic[1], ic[2]>>
    ELSE Vector([q \in 1..(6 * Bodies(sv)) |->
                    ic[((q - 1) \div 3) + 1][((q - 1) % 3) + 1]])

(***************************************************************************)
(* Trajectory packaging: the recorded state history, component-major       *)
(***************************************************************************)
\* the sequence of component q over all recorded states
Component(hs, q) == Vector([k \in 1..Len(hs) |-> hs[k][q]])

\* <<x sequence, y sequence, z sequence>> starting at slot q
Triple(hs, q) == <<Component(hs, q), Component(hs, q + 1), Component(hs, q + 2)>>

RK42ndResult(hs, ts) == <<Component(hs, 1), Component(hs, 2), ts>>

RK4TwoBodyResult(hs, ts) ==
    <<Triple(hs, 1), Triple(hs, 4), Triple(hs, 7), Triple(hs, 10), ts>>

RK4ThreeBodyResult(hs, ts) ==
    <<Triple(hs, 1), Triple(hs, 4), Triple(hs, 7),
      Triple(hs, 10), Triple(hs, 13), Triple(hs, 16), ts>>

(***************************************************************************)
(* Inputs of the solve calls                                               *)
(***************************************************************************)
MaxHeight == 10
MaxVelocity == 5
LateStart == 1
LongSpan == 2
MaxMass == 2
MaxCoord == 2
MaxSpeed == 1

\* time spans <<t0, tn>> with t0 < tn
TimeSpans == {<<R(0), R(1)>>, <<R(LateStart), R(LateStart + LongSpan)>>}

\* a call: the arguments massList, ic, t0, tn of a solver
Call(m, ic, ts) == [massList |-> m, ic |-> ic, t0 |-> ts[1], tn |-> ts[2]]

\* Earth2DModelSolver: ic = (initial height, initial velocity)
EarthCalls ==
    {Call(<<>>, <<R(MaxHeight), R(v)>>, ts) : v \in {0, MaxVelocity}, ts \in TimeSpans}

Positions == {<<0, 0, 0>>, <<MaxCoord, 1, 2>>}

Velocities == {<<0, 0, 0>>, <<0, MaxSpeed, 0>>}

\* CoupledTwoBodySolver: ic = (position 1, position 2, velocity 1, velocity 2);
\* the set is closed under exchanging the two bodies
TwoBodyCalls ==
    {c \in {Call(<<m1, m2>>, <<p1, p2, v1, v2>>, <<R(0), R(1)>>) :
                m1 \in {1, MaxMass}, m2 \in {1, MaxMass},
                p1 \in Positions, p2 \in Positions,
                v1 \in Velocities, v2 \in Velocities} :
        c.ic[1] # c.ic[2] /\ c.ic[3] # c.ic[4]}

\* CoupledThreeBodySolver: ic = (three positions, three velocities)
ThreeBodyCalls ==
    {Call(<<MaxMass, 1, 1>>,
          <<<<0, 0, 0>>, <<MaxCoord, 1, 2>>, <<0, MaxCoord, 1>>,
            <<0, 0, 0>>, <<0, MaxSpeed, 0>>, v3>>, <<R(0), R(1)>>) :
        v3 \in Velocities}

\* the calls of the runs that keep the first result for comparison
EarthRecalls == {c \in EarthCalls : c.ic[2] = R(0)}

\* the call with the two masses, the two initial positions and the two initial
\* velocities exchanged
Exchanged(c) ==
    [c EXCEPT !.massList = <<c.massList[2], c.massList[1]>>,
              !.ic = <<c.ic[2], c.ic[1], c.ic[4], c.ic[3]>>]

TwoBodyRecalls ==
    LET base == Call(<<1, MaxMass>>, <<<<0, 0, 0>>, <<MaxCoord, 1, 2>>,
                                       <<0, 0, 0>>, <<0, MaxSpeed, 0>>>>,
                     <<R(0), R(1)>>)
    IN  {base, Exchanged(base),
         [base EXCEPT !.t0 = R(LateStart), !.tn = R(LateStart + LongSpan)]}

ThreeBodyRecalls == {c \in ThreeBodyCalls : c.ic[6] = <<0, 0, 0>>}

NoCall == [solver |-> "none"]

(***************************************************************************)
(* The solve calls as a state machine: a driver is called, the stepper     *)
(* loop runs, the driver returns                                           *)
(***************************************************************************)
\* ---------------------------------------------------------------------
\* The Two Body window (Version 1.0.0/TwoBodies.py).
\*
\* Every signal of the window is connected directly, so a slot runs
\* inside the call that changed the widget and returns before that call
\* does.  A handler is therefore an operator from the window before the
\* call to the window after it, and a setter of a widget is the
\* assignment followed by the slots of the signal it emits; Qt emits
\* textChanged, stateChanged and currentIndexChanged only when the value
\* really changes.
\*
\* A window is a record:
\*   index[b]    currentIndex of the combo box of mass b,
\*   name[b]     text of the name line edit of mass b,
\*   mass[b]     text of the mass line edit of mass b,
\*   posvel[b]   how many of the position and velocity line edits of
\*               mass b hold text (every handler reads and writes them
\*               alike, one after the other),
\*   timeSpan    text of the time-span line edit,
\*   checked     the indexes in children[3] of the plot check boxes
\*               that are checked,
\*   enabled[f]  whether the widgets of field f are enabled, with the
\*               field numbers of DefaultState and EnableFields:
\*               0 mass 1, 1 time span, 2 mass 2, 3 plot selection,
\*               4 the Calculate button.

\* Highest combo-box index kept; the source has the thirteen items 0..12.
MaxIndex == 2

\* Position and velocity line edits kept for a mass; the source has the
\* six of children[b][3:9].
PosVelFields == 2

\* Plot check boxes kept; the source has the eight of children[3][0:8].
PlotBoxes == 2

cbItems ==
    <<"Select Object:", "Arbitrary Object", "Sun", "Mercury", "Venus",
      "Earth", "Moon", "Mars", "Jupiter", "Saturn", "Uranus", "Neptune",
      "Pluto">>

\* str(MASSESARR[currentIndex - 2]): the mass of a catalogued body.
MASSESARR(currentIndex) == "2"

\* Seconds in a day.
DS == 86400

\* float(text) of the texts the line edits take here.
Float(text) ==
    CASE text = "1" -> 1
      [] text = "2" -> 2
      [] text = "0.0" -> 0
      [] text = "1.0" -> 1
      [] text = "-1" -> 0 - 1

\* IsNum: whether float(string) succeeds.  No handler calls it.
IsNum(string) == string \in {"1", "2", "0.0", "1.0", "-1"}

\* The number of the field of mass b in DefaultState and EnableFields.
MassField(b) == IF b = 1 THEN 0 ELSE 2

\* DefaultState that leaves the Calculate button as it is.
DefaultStateInputsOnly(w, field) ==
    IF field = 4 THEN w ELSE [w EXCEPT !.enabled[field] = FALSE]

DefaultState(w, field) == [w EXCEPT !.enabled[field] = FALSE]

EnableFields(w, field) == [w EXCEPT !.enabled[field] = TRUE]

\* The window InitUI leaves: nothing selected, typed or checked, and
\* DefaultState(5) has disabled every field.
InitUI ==
    [index |-> <<0, 0>>, name |-> <<"", "">>, mass |-> <<"", "">>,
     posvel |-> <<0, 0>>, timeSpan |-> "", checked |-> {},
     enabled |-> [field \in 0..4 |-> FALSE]]

\* all(... widget.text() != "" for widget in children[b - 1][1:9])
MassParams(w, b) ==
    /\ w.name[b] # ""
    /\ w.mass[b] # ""
    /\ w.posvel[b] = PosVelFields

RECURSIVE Signals(_)
RECURSIVE UncheckFrom(_, _)

\* ClearTime that leaves the text as it is.
ClearTimeSkipped(w) == w

\* ClearTime: setText("") on the time-span line edit, and the slot of
\* its textChanged.
ClearTime(w) ==
    IF w.timeSpan = "" THEN w ELSE Signals([w EXCEPT !.timeSpan = ""])

\* UnselectAllPlots that leaves the boxes as they are.
UnselectAllPlotsSkipped(w) == w

\* UnselectAllPlots: setChecked(False) on the boxes in turn, and
\* the slot of stateChanged after every box that was checked.
UncheckFrom(w, index) ==
    IF index = PlotBoxes THEN w
    ELSE UncheckFrom(IF index \in w.checked
                     THEN Signals([w EXCEPT !.checked = @ \ {index}])
                     ELSE w,
                     index + 1)

UnselectAllPlots(w) == UncheckFrom(w, 0)

\* Signals: the slot of every combo box, line edit and check box.  The
\* six conditions are read once, on entry, and used after the calls of
\* ClearTime and UnselectAllPlots, which run this slot again.
Signals(w) ==
    LET mass1ComboBox == w.index[1] # 0
        mass2ComboBox == w.index[2] # 0
        mass1Params == MassParams(w, 1)
        mass2Params == MassParams(w, 2)
        timeVals == w.timeSpan # ""
        checkBoxes == w.checked # {}
        timed == IF mass1ComboBox \/ mass2ComboBox
                 THEN EnableFields(w, 1)
                 ELSE DefaultState(ClearTime(w), 1)
        boxed == IF mass1Params /\ mass2Params /\ timeVals
                 THEN EnableFields(timed, 3)
                 ELSE DefaultState(UnselectAllPlots(timed), 3)
    IN  IF mass1Params /\ mass2Params /\ timeVals /\ checkBoxes
        THEN EnableFields(boxed, 4)
        ELSE DefaultState(boxed, 4)

\* setText on the name, mass and time-span line edits, with the slot of
\* textChanged.
SetName(w, b, text) ==
    IF w.name[b] = text THEN w ELSE Signals([w EXCEPT !.name[b] = text])

SetMass(w, b, text) ==
    IF w.mass[b] = text THEN w ELSE Signals([w EXCEPT !.mass[b] = text])

SetTime(w, text) ==
    IF w.timeSpan = text THEN w ELSE Signals([w EXCEPT !.timeSpan = text])

RECURSIVE ClearPosVel(_, _)
RECURSIVE Retype(_, _)
RECURSIVE FillPosVel(_, _)
RECURSIVE CheckBoxes(_, _, _)

\* setText("") on the position and velocity line edits of mass b in
\* turn.
ClearPosVel(w, b) ==
    IF w.posvel[b] = 0 THEN w
    ELSE ClearPosVel(Signals([w EXCEPT !.posvel[b] = @ - 1]), b)

\* n line edits that hold text are given another text.
Retype(w, n) == IF n = 0 THEN w ELSE Retype(Signals(w), n - 1)

FillPosVel(w, b) ==
    IF w.posvel[b] = PosVelFields THEN w
    ELSE FillPosVel(Signals([w EXCEPT !.posvel[b] = @ + 1]), b)

\* setText of a catalogue or random value on the position and velocity
\* line edits of mass b in turn: the ones that hold text change it, the
\* empty ones get one.
SetPosVel(w, b) == FillPosVel(Retype(w, w.posvel[b]), b)

\* setChecked(True) on one box, with the slot of stateChanged.
SetChecked(w, index) ==
    IF index \in w.checked THEN w
    ELSE Signals([w EXCEPT !.checked = @ \cup {index}])

\* setChecked(True) on the boxes of picked, in turn from index on.
CheckBoxes(w, picked, index) ==
    IF index = PlotBoxes THEN w
    ELSE CheckBoxes(IF index \in picked THEN SetChecked(w, index) ELSE w,
                    picked, index + 1)

SelectAllPlots(w) == CheckBoxes(w, 0..(PlotBoxes - 1), 0)

\* ClearMassParams over children[b][2:9]: the name is kept.
ClearMassParamsKeepName(w, b) == ClearPosVel(SetMass(w, b, ""), b)

\* ClearMass1Params and ClearMass2Params.
ClearMassParams(w, b) == ClearPosVel(SetMass(SetName(w, b, ""), b, ""), b)

\* OnMass1CBChange and OnMass2CBChange.
OnMassCBChange(w, b) ==
    LET currentIndex == w.index[b]
        named == SetName(EnableFields(w, MassField(b)), b,
                         cbItems[currentIndex + 1])
    IN  IF currentIndex = 0
        THEN DefaultState(ClearMassParams(w, b), MassField(b))
        ELSE IF currentIndex # 1
             THEN SetPosVel(SetMass(named, b, MASSESARR(currentIndex)), b)
             ELSE ClearPosVel(SetMass(named, b, ""), b)

\* setCurrentIndex on the combo box of mass b: currentIndexChanged runs
\* its slots in the order they were connected, OnMassCBChange (InitUI)
\* and then Signals (ConnectSignals).
SetCurrentIndex(w, b, i) ==
    IF w.index[b] = i THEN w
    ELSE Signals(OnMassCBChange([w EXCEPT !.index[b] = i], b))

\* RandomMass1 and RandomMass2; randIndex is random.randint(1, 12) and
\* randomMass the text of the mass drawn for the arbitrary object.
RandomMass(w, b, randIndex, randomMass) ==
    LET chosen == SetCurrentIndex(w, b, randIndex)
    IN  IF randIndex # 1 THEN chosen
        ELSE SetPosVel(SetMass(chosen, b, randomMass), b)

\* RandomTime; randTime is str(round(random.uniform(0, 1000), 2)).
RandomTime(w, randTime) == SetTime(w, randTime)

\* RandomPlots; picked boxes have randInts[index] % (index + 2) == 0.
\* When none has, children[3][randIndex] is checked, and
\* children[3][8] is the Select All push button, which is not
\* checkable.
RandomPlots(w, picked, randIndex) ==
    LET cleared == UnselectAllPlots(w)
    IN  IF picked # {} THEN CheckBoxes(cleared, picked, 0)
        ELSE IF randIndex < PlotBoxes THEN SetChecked(cleared, randIndex)
        ELSE cleared

RandomAll(w, draw) ==
    RandomPlots(
        RandomTime(
            RandomMass(RandomMass(w, 1, draw.index[1], draw.mass[1]),
                       2, draw.index[2], draw.mass[2]),
            draw.time),
        draw.picked, draw.randIndex)

ClearAll(w) ==
    SetCurrentIndex(
        SetCurrentIndex(
            ClearMassParams(
                ClearMassParams(ClearTime(UnselectAllPlots(w)), 2), 1),
            1, 0),
        2, 0)

\* float(text) of the position and velocity line edits of mass b, whose
\* texts the window record does not keep: the text is taken to be the
\* number of the mass.
PosVelValue(b) == <<b, b, b>>

\* No plot window has been opened.
NoPlot ==
    [shown |-> FALSE, plotType |-> 0 - 1, given |-> <<>>, solved |-> <<>>,
     masses |-> <<>>, ic |-> <<>>, drawn |-> <<>>]

\* Plot that exchanges everything but the names.
PlotNamesKept(plotType, masses, ic, t0, tn, mass1Name, mass2Name) ==
    LET m1 == masses[1]
        m2 == masses[2]
        swap == m2 > m1
        exchanged == <<ic[2], ic[1], ic[4], ic[3]>>
    IN  [shown |-> TRUE,
         plotType |-> plotType,
         given |-> [masses |-> masses, ic |-> ic,
                    mass1Name |-> mass1Name, mass2Name |-> mass2Name],
         solved |-> [masses |-> masses, ic |-> ic, t0 |-> t0, tn |-> tn],
         masses |-> IF swap THEN <<m2, m1>> ELSE masses,
         ic |-> ic,
         drawn |-> [masses |-> IF swap THEN <<m2, m1>> ELSE masses,
                    ic |-> IF swap THEN exchanged ELSE ic,
                    mass1Pos |-> IF swap THEN <<ic[2]>> ELSE <<ic[1]>>,
                    mass2Pos |-> IF swap THEN <<ic[1]>> ELSE <<ic[2]>>,
                    mass1Vel |-> IF swap THEN <<ic[4]>> ELSE <<ic[3]>>,
                    mass2Vel |-> IF swap THEN <<ic[3]>> ELSE <<ic[4]>>,
                    mass1Name |-> mass1Name,
                    mass2Name |-> mass2Name]]

\* TwoBodyCanvas.Plot, as TwoBodyPlotWindow.__init__ calls it.  given
\* holds the arguments when the call is made, solved the arguments of
\* RK4TwoBody, masses and ic the caller's list objects when Plot
\* returns, and drawn what Plot went on with and handed to the axes and
\* to Notes: masses[0] and masses[1] are assigned in the caller's list,
\* ic is bound to a new list.  The position and velocity lists the
\* solver returns are kept to their first sample, which is the initial
\* condition of the body.
Plot(plotType, masses, ic, t0, tn, mass1Name, mass2Name) ==
    LET mass1Pos == <<ic[1]>>
        mass2Pos == <<ic[2]>>
        mass1Vel == <<ic[3]>>
        mass2Vel == <<ic[4]>>
        m1 == masses[1]
        m1Name == mass1Name
        m1Pos == mass1Pos
        m1Vel == mass1Vel
        m2 == masses[2]
        m2Name == mass2Name
        m2Pos == mass2Pos
        m2Vel == mass2Vel
        icCopy == ic
        swap == m2 > m1
    IN  [shown |-> TRUE,
         plotType |-> plotType,
         given |-> [masses |-> masses, ic |-> ic,
                    mass1Name |-> mass1Name, mass2Name |-> mass2Name],
         solved |-> [masses |-> masses, ic |-> ic, t0 |-> t0, tn |-> tn],
         masses |-> IF swap THEN <<m2, m1>> ELSE masses,
         ic |-> ic,
         drawn |-> [masses |-> IF swap THEN <<m2, m1>> ELSE masses,
                    ic |-> IF swap
                           THEN <<icCopy[2], icCopy[1], icCopy[4], icCopy[3]>>
                           ELSE ic,
                    mass1Pos |-> IF swap THEN m2Pos ELSE mass1Pos,
                    mass2Pos |-> IF swap THEN m1Pos ELSE mass2Pos,
                    mass1Vel |-> IF swap THEN m2Vel ELSE mass1Vel,
                    mass2Vel |-> IF swap THEN m1Vel ELSE mass2Vel,
                    mass1Name |-> IF swap THEN m2Name ELSE mass1Name,
                    mass2Name |-> IF swap THEN m1Name ELSE mass2Name]]

\* The plot window Calculate opens from the line edits of w.
CalculatePlot(w) ==
    LET mass1 == Float(w.mass[1])
        mass2 == Float(w.mass[2])
        timeSpan == (Float(w.timeSpan) * 1461 * DS) \div 4
        masses == <<mass1, mass2>>
        ic == <<PosVelValue(1), PosVelValue(2), PosVelValue(1), PosVelValue(2)>>
    IN  Plot(0, masses, ic, 0, timeSpan, w.name[1], w.name[2])

\* ---------------------------------------------------------------------
\* The axis limits of the two-body position plots
\* (CoupledTwoBody2DPlotPos in ModelFunctions.py and MaxPos in
\* TwoBodyCanvas.Plot, which compute them alike).  mass1Pos and mass2Pos
\* are the lists the solver returns, mass1Pos[c] holding the positions
\* in direction c at every time sample; directions are numbered from 1
\* here and from 0 in the source.  Lengths are kept in tenths, so that
\* the factor 1.1 is the integer 11.

\* Time samples kept of a trajectory; the solver returns 10001.
Samples == 3

\* Nothing has been drawn.
NoAxes == [drawn |-> FALSE, mass1Pos |-> <<>>, mass2Pos |-> <<>>,
           iDirection |-> 0, jDirection |-> 0, xlim |-> <<>>, ylim |-> <<>>]

Max(S) == CHOOSE x \in S : \A y \in S : y <= x

\* max(max([pos[d] for pos in mass1Pos]), max([pos[d] for pos in
\* mass2Pos])) * 1.1, with d counted from 1: pos runs over the three
\* direction lists, and pos[d] is the d-th time sample of one of them.
MaxDist(mass1Pos, mass2Pos, d) ==
    11 * Max({Max({mass1Pos[c][d] : c \in 1..3}),
              Max({mass2Pos[c][d] : c \in 1..3})})

\* MaxPos: the limits set on the axes showing directions i and j.
MaxPos(mass1Pos, mass2Pos, i, j) ==
    [drawn |-> TRUE, mass1Pos |-> mass1Pos, mass2Pos |-> mass2Pos,
     iDirection |-> i, jDirection |-> j,
     xlim |-> <<0 - MaxDist(mass1Pos, mass2Pos, i),
                MaxDist(mass1Pos, mass2Pos, i)>>,
     ylim |-> <<0 - MaxDist(mass1Pos, mass2Pos, j),
                MaxDist(mass1Pos, mass2Pos, j)>>]

Init ==
    /\ pc = "idle"
    /\ solver = "none"
    /\ args = Call(<<>>, <<>>, <<R(0), R(0)>>)
    /\ h = R(0)
    /\ t = R(0)
    /\ s = <<>>
    /\ hist = <<>>
    /\ time = <<>>
    /\ ret = <<>>
    /\ first = NoCall
    /\ stage = 0
    /\ ks = <<>>
    /\ evals = 0
    /\ other = [pc |-> "idle"]
    /\ win = InitUI
    /\ posPlot = NoPlot
    /\ axes = NoAxes

\* the observer notes that a call follows the result it keeps
Later(f) == IF f = NoCall THEN f ELSE [f EXCEPT !.later = TRUE]

\* mutant: the stepper goes on from the time the previous call stopped at
EnterResumed(sv, c, hh) ==
    /\ pc' = "run"
    /\ solver' = sv
    /\ args' = c
    /\ h' = hh
    /\ t' = IF pc = "done" THEN t ELSE c.t0
    /\ s' = InitialState(sv, c.ic)
    /\ hist' = <<InitialState(sv, c.ic)>>
    /\ time' = <<t'>>
    /\ ret' = <<>>
    /\ first' = Later(first)
    /\ stage' = 0
    /\ ks' = <<>>
    /\ evals' = 0
    /\ UNCHANGED beside

\* mutant: the driver refuses masses that are not positive
EnterChecked(sv, c, hh) ==
    IF \E i \in 1..Len(c.massList) : c.massList[i] <= 0
    THEN /\ pc' = "error"
         /\ UNCHANGED <<solver, args, h, t, s, hist, time, ret, first, stageVars, beside>>
    ELSE /\ pc' = "run"
         /\ solver' = sv
         /\ args' = c
         /\ h' = hh
         /\ t' = c.t0
         /\ s' = InitialState(sv, c.ic)
         /\ hist' = <<InitialState(sv, c.ic)>>
         /\ time' = <<c.t0>>
         /\ ret' = <<>>
         /\ first' = Later(first)
         /\ stage' = 0
         /\ ks' = <<>>
         /\ evals' = 0
         /\ UNCHANGED beside

\* entry of the stepper with the arguments the driver passes: sample 0 is the
\* initial state at t0
Enter(sv, c, hh) ==
    /\ pc' = "run"
    /\ solver' = sv
    /\ args' = c
    /\ h' = hh
    /\ t' = c.t0
    /\ s' = InitialState(sv, c.ic)
    /\ hist' = <<InitialState(sv, c.ic)>>
    /\ time' = <<c.t0>>
    /\ ret' = <<>>
    /\ first' = Later(first)
    /\ stage' = 0
    /\ ks' = <<>>
    /\ evals' = 0
    /\ UNCHANGED beside

\* a driver is called when no solve is running: it derives the step size and
\* calls the stepper
Earth2DModelSolver(c) ==
    /\ pc # "run"
    /\ Enter("Earth2D", c, Earth2DStepSize(c.t0, c.tn))

CoupledTwoBodySolver(c) ==
    /\ pc # "run"
    /\ Enter("TwoBody", c, TwoBodyStepSize(c.t0, c.tn))

CoupledThreeBodySolver(c) ==
    /\ pc # "run"
    /\ Enter("ThreeBody", c, ThreeBodyStepSize(c.t0, c.tn))

\* mutant: tn passed where the stepper expects h
StepOfEndTime(sv, m, st, hh) ==
    IF sv = "Earth2D" THEN RK42ndStep(st, args.tn)
    ELSE IF sv = "TwoBody" THEN RK4TwoBodyStep(m, st, FromRat(args.tn))
    ELSE RK4ThreeBodyStep(m, st, FromRat(args.tn))

\* one stepper application of the running solver, with the force model and the
\* step size its driver passed
StepOf(sv, m, st, hh) ==
    IF sv = "Earth2D" THEN RK42ndStep(st, hh)
    ELSE IF sv = "TwoBody" THEN RK4TwoBodyStep(m, st, FromRat(hh))
    ELSE RK4ThreeBodyStep(m, st, FromRat(hh))

\* the stepper loop: while t < tn, advance one step and record it
RK4Loop ==
    /\ pc = "run"
    /\ RLess(t, args.tn)
    /\ s' = StepOf(solver, args.massList, s, h)
    /\ t' = RAdd(t, h)
    /\ hist' = Append(hist, s')
    /\ time' = Append(time, t')
    /\ UNCHANGED <<pc, solver, args, h, ret, first, stageVars, beside>>

ResultOf(sv, hs, ts) ==
    IF sv = "Earth2D" THEN Earth2DReturn(RK42ndResult(hs, ts))
    ELSE IF sv = "TwoBody" THEN TwoBodyReturn(RK4TwoBodyResult(hs, ts))
    ELSE ThreeBodyReturn(RK4ThreeBodyResult(hs, ts))

\* the loop has ended: the stepper packages the history, the driver returns it.
\* keep = TRUE: the observer keeps the first returned result in `first'.
ReturnTo(keep) ==
    /\ ~RLess(t, args.tn)
    /\ pc' = "done"
    /\ ret' = ResultOf(solver, hist, time)
    /\ first' = IF keep /\ first = NoCall
                THEN [solver |-> solver, args |-> args, ret |-> ret', later |-> FALSE]
                ELSE first
    /\ UNCHANGED <<solver, args, h, t, s, hist, time, stageVars, beside>>

Return ==
    /\ pc = "run"
    /\ ReturnTo(FALSE)

ReturnKept ==
    /\ pc = "run"
    /\ ReturnTo(TRUE)

Next ==
    \/ \E c \in EarthCalls : Earth2DModelSolver(c)
    \/ \E c \in TwoBodyCalls : CoupledTwoBodySolver(c)
    \/ \E c \in ThreeBodyCalls : CoupledThreeBodySolver(c)
    \/ RK4Loop
    \/ Return

Spec == Init /\ [][Next]_vars

(***************************************************************************)
(* The stepper stage by stage                                              *)
(***************************************************************************)
\* most force model calls made besides the four of each step, per solve
MaxExtraCalls == 1

\* the derivative function the stepper calls: the force model of the solver
Derivative(sv, m, st) ==
    IF sv = "Earth2D" THEN Earth2DForceModel(st) ELSE ForceModel(sv, m, st)

\* st + c * k, in the arithmetic of the solver
Shifted(sv, st, c, k) ==
    IF sv = "Earth2D" THEN RVAdd(st, RVScale(c, k))
    ELSE FVAdd(st, FVScale(FromRat(c), k))

\* the state the next stage derivative is computed at, kk the stage
\* derivatives of this step so far
StagePoint(sv, st, hh, kk) ==
    IF Len(kk) = 0 THEN st
    ELSE IF Len(kk) = 3 THEN Shifted(sv, st, hh, kk[3])
    ELSE Shifted(sv, st, RDiv(hh, R(2)), kk[Len(kk)])

\* mutant: only the position half of the state replaced, the velocities kept
NextStatePositionsOnly(sv, st, hh, kk) ==
    LET new == Shifted(sv, st, RDiv(hh, R(6)),
                       Shifted(sv, Shifted(sv, kk[1], R(2), kk[2]), R(1),
                               Shifted(sv, kk[4], R(2), kk[3])))
    IN  Vector([q \in 1..Len(st) |-> IF 2 * q <= Len(st) THEN new[q] ELSE st[q]])

\* nextState = state + (h/6) * (k1 + 2*k2 + 2*k3 + k4), every component
NextState(sv, st, hh, kk) ==
    Shifted(sv, st, RDiv(hh, R(6)),
            Shifted(sv, Shifted(sv, kk[1], R(2), kk[2]), R(1),
                    Shifted(sv, kk[4], R(2), kk[3])))

\* mutant: the force model writes the derivative into the array it was handed
ArgumentAfterCallInPlace(st, d) == d

\* the array handed to a force model, after the call: the force model returns a
\* new array and leaves its argument as it was
ArgumentAfterCall(st, d) == st

\* one of the four stages of a step: k1 is computed at the state itself, the
\* later ones at temporaries
RK4Stage ==
    /\ pc = "run"
    /\ RLess(t, args.tn)
    /\ stage < 4
    /\ stage' = stage + 1
    /\ ks' = Append(ks, Derivative(solver, args.massList, StagePoint(solver, s, h, ks)))
    /\ s' = IF stage = 0 THEN ArgumentAfterCall(s, ks'[1]) ELSE s
    /\ UNCHANGED <<pc, solver, args, h, t, hist, time, ret, first, evals, beside>>

\* the end of a step: the state replaced, the time advanced, both recorded
RK4Advance ==
    /\ pc = "run"
    /\ stage = 4
    /\ s' = NextState(solver, s, h, ks)
    /\ t' = RAdd(t, h)
    /\ hist' = Append(hist, s')
    /\ time' = Append(time, t')
    /\ stage' = 0
    /\ ks' = <<>>
    /\ UNCHANGED <<pc, solver, args, h, ret, first, evals, beside>>

\* a call of the force model at the current state between two steps, its
\* result dropped
ForceModelCall ==
    /\ pc = "run"
    /\ stage = 0
    /\ evals < MaxExtraCalls
    /\ evals' = evals + 1
    /\ s' = ArgumentAfterCall(s, Derivative(solver, args.massList, s))
    /\ UNCHANGED <<pc, solver, args, h, t, hist, time, ret, first, stage, ks, beside>>

EarthStageCalls == {c \in EarthCalls : c.ic[2] = R(0) /\ c.t0 = R(0)}

TwoBodyStageCalls == {c \in TwoBodyRecalls : c.t0 = R(0)}

NextStages ==
    \/ \E c \in EarthStageCalls : Earth2DModelSolver(c)
    \/ \E c \in TwoBodyStageCalls : CoupledTwoBodySolver(c)
    \/ \E c \in ThreeBodyRecalls : CoupledThreeBodySolver(c)
    \/ RK4Stage
    \/ RK4Advance
    \/ ForceModelCall
    \/ Return

SpecStages == Init /\ [][NextStages]_vars

(***************************************************************************)
(* Two solve calls at the same time                                        *)
(***************************************************************************)
\* mutant: the step size kept in one place for all calls
StepSizeShared(o) == h

\* the step size of a call: the local variable h of its driver
StepSizeLocal(o) == o.h

\* the second call enters a driver: h derived, stepper entered
OtherCall(sv, c) ==
    /\ other.pc # "run"
    /\ other' = [pc |-> "run", solver |-> sv, args |-> c,
                 h |-> IF sv = "TwoBody" THEN TwoBodyStepSize(c.t0, c.tn)
                       ELSE ThreeBodyStepSize(c.t0, c.tn),
                 t |-> c.t0, s |-> InitialState(sv, c.ic),
                 hist |-> <<InitialState(sv, c.ic)>>, time |-> <<c.t0>>, ret |-> <<>>]
    /\ UNCHANGED <<solveVars, win, posPlot, axes>>

\* one step of the second call's stepper loop
OtherLoop ==
    /\ other.pc = "run"
    /\ RLess(other.t, other.args.tn)
    /\ LET next == StepOf(other.solver, other.args.massList, other.s, StepSizeLocal(other))
       IN  other' = [other EXCEPT !.s = next,
                                  !.t = RAdd(other.t, StepSizeLocal(other)),
                                  !.hist = Append(other.hist, next),
                                  !.time = Append(other.time, RAdd(other.t, StepSizeLocal(other)))]
    /\ UNCHANGED <<solveVars, win, posPlot, axes>>

\* the second call returns
OtherReturn ==
    /\ other.pc = "run"
    /\ ~RLess(other.t, other.args.tn)
    /\ other' = [other EXCEPT !.pc = "done",
                              !.ret = ResultOf(other.solver, other.hist, other.time)]
    /\ UNCHANGED <<solveVars, win, posPlot, axes>>

NextPair ==
    \/ \E c \in TwoBodyRecalls : CoupledTwoBodySolver(c)
    \/ RK4Loop
    \/ Return
    \/ \E c \in TwoBodyRecalls : OtherCall("TwoBody", c)
    \/ \E c \in ThreeBodyRecalls : OtherCall("ThreeBody", c)
    \/ OtherLoop
    \/ OtherReturn

SpecPair == Init /\ [][NextPair]_vars

\* calls the drivers do not refuse: zero and negative masses, bodies that
\* start at the same position
TwoBodyOddCalls ==
    {Call(ml, <<<<0, 0, 0>>, p2, <<0, 0, 0>>, v2>>, ts) :
        ml \in {<<0, 1>>, <<0 - 1, MaxMass>>, <<1, MaxMass>>},
        p2 \in Positions, v2 \in Velocities, ts \in TimeSpans}

ThreeBodyOddCalls ==
    {Call(ml, <<<<0, 0, 0>>, <<MaxCoord, 1, 2>>, p3,
                <<0, 0, 0>>, <<0, MaxSpeed, 0>>, v3>>, <<R(0), R(1)>>) :
        ml \in {<<MaxMass, 1, 0>>, <<MaxMass, 1, 1>>},
        p3 \in {<<MaxCoord, 1, 2>>, <<0, MaxCoord, 1>>}, v3 \in Velocities}

NextOdd ==
    \/ \E c \in TwoBodyOddCalls : CoupledTwoBodySolver(c)
    \/ \E c \in ThreeBodyOddCalls : CoupledThreeBodySolver(c)
    \/ RK4Loop
    \/ Return

SpecOdd == Init /\ [][NextOdd]_vars

\* ---------------------------------------------------------------------
\* The user at the Two Body window.  A click or a key stroke reaches a
\* widget only while it is enabled; the combo boxes, the name line
\* edits, the Random buttons of the masses and the Clear, Random and Home
\* buttons of the window are never disabled.  The plot window that
\* Calculate opens is closed before the next input: no handler of the
\* Two Body window reads it.

\* Texts typed into the name, mass and time-span line edits ("" deletes
\* the text).
NameTexts == {"", "Sun"}

MassTexts == {"", "1", "-1"}

TimeTexts == {"", "0.0", "1.0", "x"}

\* str(randomMass) and str(randTime): random.uniform never draws a mass
\* below 0.01 * MPLUTO, and round(random.uniform(0, 1000), 2) is 0.0
\* for a draw below 0.005.
RandomMasses == {"1", "2"}

RandomTimes == {"0.0", "1.0"}

\* randIndex and randomMass of one RandomMass call.
MassDraws ==
    {<<1, m>> : m \in RandomMasses} \cup {<<i, "">> : i \in 2..MaxIndex}

\* The picked boxes and randIndex of one RandomPlots call.
PlotDraws ==
    {<<picked, 0>> : picked \in (SUBSET (0..(PlotBoxes - 1))) \ {{}}}
        \cup {<<{}, randIndex>> : randIndex \in 0..PlotBoxes}

\* The draws of one RandomAll call: the two RandomMass calls draw alike,
\* the arbitrary object or the last object of the list, and either a time
\* span of 0.0 with no box picked and the push button drawn, or a time
\* span of 1.0 with the last box picked.
AllDraws ==
    {[index |-> <<d[1], d[1]>>, mass |-> <<d[2], d[2]>>, time |-> x[1],
      picked |-> x[2], randIndex |-> x[3]] :
        d \in {<<1, "1">>, <<MaxIndex, "">>},
        x \in {<<"0.0", {}, PlotBoxes>>, <<"1.0", {PlotBoxes - 1}, 0>>}}

TypeName(b, text) ==
    /\ text # win.name[b]
    /\ ~posPlot.shown
    /\ win' = SetName(win, b, text)
    /\ UNCHANGED <<posPlot, other, axes, solveVars>>

TypeMass(b, text) ==
    /\ win.enabled[MassField(b)]
    /\ text # win.mass[b]
    /\ ~posPlot.shown
    /\ win' = SetMass(win, b, text)
    /\ UNCHANGED <<posPlot, other, axes, solveVars>>

\* One position or velocity line edit of mass b gets a text (by = 1),
\* another text (by = 0) or loses its text (by = -1).
TypePosVel(b, by) ==
    /\ win.enabled[MassField(b)]
    /\ win.posvel[b] + by \in 0..PosVelFields
    /\ by = 0 => win.posvel[b] > 0
    /\ ~posPlot.shown
    /\ win' = Signals([win EXCEPT !.posvel[b] = @ + by])
    /\ UNCHANGED <<posPlot, other, axes, solveVars>>

TypeTime(text) ==
    /\ win.enabled[1]
    /\ text # win.timeSpan
    /\ ~posPlot.shown
    /\ win' = SetTime(win, text)
    /\ UNCHANGED <<posPlot, other, axes, solveVars>>

SelectObject(b, i) ==
    /\ i # win.index[b]
    /\ ~posPlot.shown
    /\ win' = SetCurrentIndex(win, b, i)
    /\ UNCHANGED <<posPlot, other, axes, solveVars>>

\* The plot check box at index is clicked.
ToggleBox(index) ==
    /\ win.enabled[3]
    /\ ~posPlot.shown
    /\ win' = Signals([win EXCEPT
                           !.checked = IF index \in @ THEN @ \ {index}
                                       ELSE @ \cup {index}])
    /\ UNCHANGED <<posPlot, other, axes, solveVars>>

ClickClearMass(b) ==
    /\ win.enabled[MassField(b)]
    /\ ~posPlot.shown
    /\ win' = ClearMassParams(win, b)
    /\ UNCHANGED <<posPlot, other, axes, solveVars>>

ClickRandomMass(b, d) ==
    /\ ~posPlot.shown
    /\ win' = RandomMass(win, b, d[1], d[2])
    /\ UNCHANGED <<posPlot, other, axes, solveVars>>

ClickClearTime ==
    /\ win.enabled[1]
    /\ ~posPlot.shown
    /\ win' = ClearTime(win)
    /\ UNCHANGED <<posPlot, other, axes, solveVars>>

ClickRandomTime(randTime) ==
    /\ win.enabled[1]
    /\ ~posPlot.shown
    /\ win' = RandomTime(win, randTime)
    /\ UNCHANGED <<posPlot, other, axes, solveVars>>

ClickSelectAll ==
    /\ win.enabled[3]
    /\ ~posPlot.shown
    /\ win' = SelectAllPlots(win)
    /\ UNCHANGED <<posPlot, other, axes, solveVars>>

ClickRandomPlots(p) ==
    /\ win.enabled[3]
    /\ ~posPlot.shown
    /\ win' = RandomPlots(win, p[1], p[2])
    /\ UNCHANGED <<posPlot, other, axes, solveVars>>

ClickUnselectAll ==
    /\ win.enabled[3]
    /\ ~posPlot.shown
    /\ win' = UnselectAllPlots(win)
    /\ UNCHANGED <<posPlot, other, axes, solveVars>>

ClickClearAll ==
    /\ ~posPlot.shown
    /\ win' = ClearAll(win)
    /\ UNCHANGED <<posPlot, other, axes, solveVars>>

ClickRandomAll(draw) ==
    /\ ~posPlot.shown
    /\ win' = RandomAll(win, draw)
    /\ UNCHANGED <<posPlot, other, axes, solveVars>>

\* Calculate: the plot window is built and shown, then ClearAll.  When
\* float() raises on one of the texts, Calculate is left at that line and
\* nothing has been built or cleared.
ClickCalculate ==
    /\ ~posPlot.shown
    /\ win.enabled[4]
    /\ IF IsNum(win.mass[1]) /\ IsNum(win.mass[2]) /\ IsNum(win.timeSpan)
       THEN /\ posPlot' = CalculatePlot(win)
            /\ win' = ClearAll(win)
       ELSE UNCHANGED <<win, posPlot>>
    /\ UNCHANGED <<other, axes, solveVars>>

\* The plot window is closed.
ClosePlot ==
    /\ posPlot.shown
    /\ posPlot' = NoPlot
    /\ UNCHANGED <<win, other, axes, solveVars>>

NextWindow ==
    \/ \E b \in 1..2, text \in NameTexts : TypeName(b, text)
    \/ \E b \in 1..2, text \in MassTexts : TypeMass(b, text)
    \/ \E b \in 1..2, by \in {0 - 1, 0, 1} : TypePosVel(b, by)
    \/ \E text \in TimeTexts : TypeTime(text)
    \/ \E b \in 1..2, i \in 0..MaxIndex : SelectObject(b, i)
    \/ \E index \in 0..(PlotBoxes - 1) : ToggleBox(index)
    \/ \E b \in 1..2 : ClickClearMass(b)
    \/ \E b \in 1..2, d \in MassDraws : ClickRandomMass(b, d)
    \/ ClickClearTime
    \/ \E randTime \in RandomTimes : ClickRandomTime(randTime)
    \/ ClickSelectAll
    \/ \E p \in PlotDraws : ClickRandomPlots(p)
    \/ ClickUnselectAll
    \/ ClickClearAll
    \/ \E draw \in AllDraws : ClickRandomAll(draw)
    \/ ClickCalculate
    \/ ClosePlot

SpecWindow == Init /\ [][NextWindow]_vars

\* ---------------------------------------------------------------------
\* A position plot of a trajectory.  The position lists of a direction
\* are drawn from three shapes: rising, falling and negative.

Tracks ==
    {[k \in 1..Samples |-> k] \o <<>>,
     [k \in 1..Samples |-> Samples - k] \o <<>>,
     [k \in 1..Samples |-> 0 - k] \o <<>>}

Trajectories == {<<x, y, z>> : x \in Tracks, y \in Tracks, z \in Tracks}

\* CoupledTwoBody2DPlotPos, from the solver's return on: the limits are
\* calculated and set, the two trajectories plotted.
CoupledTwoBody2DPlotPos(mass1Pos, mass2Pos, i, j) ==
    /\ ~axes.drawn
    /\ axes' = MaxPos(mass1Pos, mass2Pos, i, j)
    /\ UNCHANGED <<win, posPlot, other, solveVars>>

\* The figure is closed.
CloseFigure ==
    /\ axes.drawn
    /\ axes' = NoAxes
    /\ UNCHANGED <<win, posPlot, other, solveVars>>

NextAxes ==
    \/ \E mass1Pos \in Trajectories, mass2Pos \in Trajectories,
          i \in 1..3, j \in 1..3 :
            CoupledTwoBody2DPlotPos(mass1Pos, mass2Pos, i, j)
    \/ CloseFigure

SpecAxes == Init /\ [][NextAxes]_vars

\* the same calls over fewer inputs, the first returned result kept
NextRecall ==
    \/ \E c \in EarthRecalls : Earth2DModelSolver(c)
    \/ \E c \in TwoBodyRecalls : CoupledTwoBodySolver(c)
    \/ \E c \in ThreeBodyRecalls : CoupledThreeBodySolver(c)
    \/ RK4Loop
    \/ ReturnKept

SpecRecall == Init /\ [][NextRecall]_vars

(***************************************************************************)
(* Properties                                                              *)
(***************************************************************************)
\* the step count of a solve: 1000 for the free-fall driver, NBodySteps for
\* the two- and three-body drivers
StepCount(sv) == IF sv = "Earth2D" THEN 1000 ELSE NBodySteps

\* the lengths of the sequences of a returned result: the x/y/z sequences of
\* every position and velocity entry, and the time sequence
OutLens(sv, r) ==
    IF sv = "Earth2D" THEN {Len(r[1]), Len(r[2]), Len(r[3])}
    ELSE {Len(r[e][c]) : e \in 1..(2 * Bodies(sv)), c \in 1..3}
            \cup {Len(r[2 * Bodies(sv) + 1])}

\* the time sequence of a returned result
TimeSeq(sv, r) == IF sv = "Earth2D" THEN r[3] ELSE r[2 * Bodies(sv) + 1]

\* C1: every returned sequence of every solve holds exactly stepCount + 1
\* samples (so all sequences of one run have the same length).
C1_SampleCount ==
    pc = "done" =>
        /\ Len(ret) = IF solver = "Earth2D" THEN 3 ELSE 2 * Bodies(solver) + 1
        /\ OutLens(solver, ret) = {StepCount(solver) + 1}

C1_Witness ==
    /\ pc = "done"
    /\ solver = "TwoBody"
    /\ Len(ret[1][1]) = NBodySteps + 1
    /\ Len(ret[4][3]) = NBodySteps + 1
    /\ Len(ret[5]) = NBodySteps + 1

\* C2: the returned time sequence is the uniform grid: sample k is
\* t0 + k * (tn - t0) / stepCount, the first is t0 and sample stepCount is tn.
C2_TimeGrid ==
    pc = "done" =>
        LET ts == TimeSeq(solver, ret)
            n == StepCount(solver)
        IN  /\ Len(ts) >= n + 1
            /\ ts[1] = args.t0
            /\ ts[n + 1] = args.tn
            /\ \A k \in 0..(Len(ts) - 1) :
                  RMul(R(n), RSub(ts[k + 1], args.t0)) = RMul(R(k), RSub(args.tn, args.t0))

C2_Witness ==
    /\ pc = "done"
    /\ solver = "Earth2D"
    /\ args.t0 = R(LateStart)
    /\ TimeSeq(solver, ret)[1001] = args.tn
    /\ TimeSeq(solver, ret)[501] = RAdd(args.t0, RDiv(RSub(args.tn, args.t0), R(2)))

\* the step size of the time domain: (tn - t0) / stepCount
SpecStep(sv, c) == RDiv(RSub(c.tn, c.t0), R(StepCount(sv)))

\* the classical RK4 update of state st of solver sv with step hh
ClassicalRK4(sv, m, st, hh) ==
    IF sv = "Earth2D" THEN RK42ndStep(st, hh)
    ELSE LET f(x) == IF sv = "TwoBody" THEN TwoCoupledBodies(m, x)
                     ELSE ThreeCoupledBodies(m, x)
             hf == FromRat(hh)
             k1 == f(st)
             k2 == f(FVAdd(st, FVScale(FDiv(hf, 2), k1)))
             k3 == f(FVAdd(st, FVScale(FDiv(hf, 2), k2)))
             k4 == f(FVAdd(st, FVScale(hf, k3)))
         IN  FVAdd(st, FVScale(FDiv(hf, 6),
                   FVAdd(FVAdd(k1, FVScale(2, k2)), FVAdd(FVScale(2, k3), k4))))

\* C3: every recorded state k+1 is the classical RK4 update of recorded state
\* k, over the whole state vector (2, 12 or 18 elements), with the force model
\* of the solver and the step size (tn - t0) / stepCount at every step.
C3_RK4Update ==
    pc = "done" =>
        \A k \in 1..(Len(hist) - 1) :
            /\ Len(hist[k]) = (IF solver = "Earth2D" THEN 2 ELSE 6 * Bodies(solver))
            /\ hist[k + 1] = ClassicalRK4(solver, args.massList, hist[k],
                                          SpecStep(solver, args))

C3_Witness ==
    /\ pc = "done"
    /\ solver = "ThreeBody"
    /\ Len(hist) = NBodySteps + 1
    /\ Len(hist[NBodySteps + 1]) = 18
    /\ hist[NBodySteps + 1] # hist[NBodySteps]
    /\ hist[NBodySteps + 1] =
          ClassicalRK4(solver, args.massList, hist[NBodySteps], SpecStep(solver, args))

\* the state after k stepper applications from the initial conditions of call c
RECURSIVE StateAfter(_, _, _)
StateAfter(sv, c, k) ==
    IF k = 0 THEN InitialState(sv, c.ic)
    ELSE ClassicalRK4(sv, c.massList, StateAfter(sv, c, k - 1), SpecStep(sv, c))

\* C4: the returned trajectory is the state history, component-major: sample 0
\* of every sequence is the initial condition passed in ic, and for every body
\* b, component c and step k the position (velocity) sequence c of body b holds
\* at k the position (velocity) component c of body b in the state after
\* exactly k stepper applications.
C4_Packaging ==
    pc = "done" =>
        IF solver = "Earth2D"
        THEN /\ ret[1][1] = args.ic[1]
             /\ ret[2][1] = args.ic[2]
             /\ \A k \in 1..Len(hist) : ret[1][k] = hist[k][1] /\ ret[2][k] = hist[k][2]
        ELSE LET n == Bodies(solver)
                 traj == [k \in 0..StepCount(solver) |-> StateAfter(solver, args, k)]
             IN  /\ \A e \in 1..(2 * n), c \in 1..3 : ret[e][c][1] = args.ic[e][c]
                 /\ \A b \in 1..n, c \in 1..3, k \in 0..StepCount(solver) :
                       /\ ret[b][c][k + 1] = traj[k][PosSlot(b, c)]
                       /\ ret[n + b][c][k + 1] = traj[k][VelSlot(n, b, c)]

C4_Witness ==
    /\ pc = "done"
    /\ solver = "TwoBody"
    /\ args.ic[2] = <<MaxCoord, 1, 2>>
    /\ ret[2][1][1] = MaxCoord
    /\ ret[2][1][NBodySteps + 1] = StateAfter(solver, args, NBodySteps)[PosSlot(2, 1)]
    /\ ret[2][1][NBodySteps + 1] # ret[1][1][NBodySteps + 1]

\* C5: the step size is derived once per call as (tn - t0) / stepCount and is
\* the same at every step; the stepper is applied exactly stepCount times, and
\* the loop ends then.
C5_StepSize ==
    /\ pc \in {"run", "done"} =>
          RMul(h, R(StepCount(solver))) = RSub(args.tn, args.t0)
    /\ pc = "run" => (RLess(t, args.tn) <=> Len(hist) - 1 < StepCount(solver))
    /\ pc = "done" => Len(hist) - 1 = StepCount(solver)

C5_Witness ==
    /\ pc = "done"
    /\ solver = "Earth2D"
    /\ Len(hist) - 1 = 1000
    /\ h = <<1, 500>>

\* C6: for initial velocity 0 the free-fall solve is the closed form at every
\* sample: position = initialHeight - g/2 * (t - t0)^2, velocity = -g * (t - t0).
C6_FreeFall ==
    (pc = "done" /\ solver = "Earth2D" /\ args.ic[2] = R(0)) =>
        \A k \in 1..Len(ret[3]) :
            LET dt == RSub(ret[3][k], args.t0)
            IN  /\ ret[1][k] = RSub(args.ic[1],
                                    RMul(RDiv(GRAVITY, R(2)), RMul(dt, dt)))
                /\ ret[2][k] = RNeg(RMul(GRAVITY, dt))

C6_Witness ==
    /\ pc = "done"
    /\ solver = "Earth2D"
    /\ args.ic[2] = R(0)
    /\ args.t0 = R(0)
    /\ Len(ret[1]) = 1001
    /\ ret[1][1001] = RSub(R(MaxHeight), RDiv(GRAVITY, R(2)))
    /\ ret[2][1001] = RNeg(GRAVITY)

\* component c of the total momentum sum(mass_i * velocity_i) at sample k of a
\* returned n-body result
RECURSIVE MomentumUpTo(_, _, _, _, _)
MomentumUpTo(m, r, b, c, k) ==
    IF b = 0 THEN 0
    ELSE FAdd(MomentumUpTo(m, r, b - 1, c, k), FMul(F(m[b]), r[Len(m) + b][c][k]))

Momentum(m, r, c, k) == MomentumUpTo(m, r, Len(m), c, k)

\* C7: the total momentum of the two- and the three-body solve is the same at
\* every sample as at sample 0.
C7_Momentum ==
    (pc = "done" /\ solver \in {"TwoBody", "ThreeBody"}) =>
        \A c \in 1..3, k \in 1..(StepCount(solver) + 1) :
            Momentum(args.massList, ret, c, k) = Momentum(args.massList, ret, c, 1)

C7_Witness ==
    /\ pc = "done"
    /\ solver = "ThreeBody"
    /\ ret[4][1][NBodySteps + 1] # ret[4][1][1]
    /\ Momentum(args.massList, ret, 2, 1) # 0
    /\ \A c \in 1..3 :
          Momentum(args.massList, ret, c, NBodySteps + 1) = Momentum(args.massList, ret, c, 1)

\* C8: a two-body call with the masses, the initial positions and the initial
\* velocities of the two bodies exchanged returns the body-1 sequences of the
\* original call as body 2, the body-2 sequences as body 1, and the same time
\* sequence.
C8_RelabelSymmetry ==
    (/\ pc = "done"
     /\ solver = "TwoBody"
     /\ first.solver = "TwoBody"
     /\ args = Exchanged(first.args)) =>
        /\ ret[1] = first.ret[2]
        /\ ret[2] = first.ret[1]
        /\ ret[3] = first.ret[4]
        /\ ret[4] = first.ret[3]
        /\ ret[5] = first.ret[5]

C8_Witness ==
    /\ pc = "done"
    /\ solver = "TwoBody"
    /\ first.solver = "TwoBody"
    /\ args = Exchanged(first.args)
    /\ args.massList[1] # args.massList[2]
    /\ ret[1] = first.ret[2]
    /\ ret[3] = first.ret[4]
    /\ ret[1] # first.ret[1]
    /\ ret[3] # ret[4]
    /\ \A c \in 1..3 : ret[3][c][NBodySteps + 1] # NonFinite

\* C9: a call with the inputs of the first call returns the output the first
\* call returned, whatever calls ran in between.
C9_Deterministic ==
    (pc = "done" /\ first.solver = solver /\ first.args = args) => ret = first.ret

C9_Witness ==
    /\ pc = "done"
    /\ first.solver = solver
    /\ first.args = args
    /\ first.later
    /\ solver = "TwoBody"
    /\ ret = first.ret
    /\ Len(ret[5]) = NBodySteps + 1
    /\ ret[1][2][NBodySteps + 1] # ret[1][2][1]

\* the integer n with n * n = x, 0 when x is not a square
IntRoot(x) == IF \E n \in 0..x : n * n = x THEN CHOOSE n \in 0..x : n * n = x ELSE 0

\* C10: at every recorded state of a two-body solve the force model the driver
\* uses returns (velocity1, velocity2, acceleration1, acceleration2): the
\* derivative of each position slot is the matching velocity slot, each
\* acceleration is G * otherMass * (otherPosition - thisPosition) / |..|^3, which
\* at the initial state (integer coordinates) is that value over the integer
\* distance, and it does not change with the body's own mass.
C10_TwoBodyForce ==
    (pc = "done" /\ solver = "TwoBody") =>
        \A k \in 1..Len(hist) :
            LET st == hist[k]
                m == args.massList
                d == ForceModel("TwoBody", m, st)
            IN  /\ Len(d) = 12
                /\ \A q \in 1..6 : d[q] = st[q + 6]
                /\ \A b \in 1..2, c \in 1..3 :
                      LET o == 3 - b
                          dx == FSub(st[PosSlot(o, 1)], st[PosSlot(b, 1)])
                          dy == FSub(st[PosSlot(o, 2)], st[PosSlot(b, 2)])
                          dz == FSub(st[PosSlot(o, 3)], st[PosSlot(b, 3)])
                          d2 == FAdd(FAdd(FMul(dx, dx), FMul(dy, dy)), FMul(dz, dz))
                          dc == FSub(st[PosSlot(o, c)], st[PosSlot(b, c)])
                          own == [m EXCEPT ![b] = m[b] + 1]
                      IN  /\ d[VelSlot(2, b, c)] =
                                FDiv(FMul(FMul(BIG_G, F(m[o])), dc),
                                     FMul(d2, FSqrt(d2)))
                          /\ ForceModel("TwoBody", own, st)[VelSlot(2, b, c)] = d[VelSlot(2, b, c)]
                          /\ k = 1 =>
                                LET ic == args.ic
                                    n == IntRoot((ic[o][1] - ic[b][1]) * (ic[o][1] - ic[b][1])
                                                 + (ic[o][2] - ic[b][2]) * (ic[o][2] - ic[b][2])
                                                 + (ic[o][3] - ic[b][3]) * (ic[o][3] - ic[b][3]))
                                IN  n # 0 =>
                                      d[VelSlot(2, b, c)] =
                                          FDiv(FMul(FMul(BIG_G, F(m[o])), F(ic[o][c] - ic[b][c])),
                                               F(n * n * n))

C10_Witness ==
    /\ pc = "done"
    /\ solver = "TwoBody"
    /\ args.massList = <<1, MaxMass>>
    /\ args.ic[1] = <<0, 0, 0>>
    /\ args.ic[2] = <<MaxCoord, 1, 2>>
    /\ ForceModel("TwoBody", args.massList, hist[1])[VelSlot(2, 1, 1)] =
          FDiv(FMul(FMul(BIG_G, F(MaxMass)), F(MaxCoord)), F(27))
    /\ ForceModel("TwoBody", args.massList, hist[1])[VelSlot(2, 2, 1)] =
          FDiv(FMul(BIG_G, F(0 - MaxCoord)), F(27))
    /\ ForceModel("TwoBody", args.massList, hist[1])[VelSlot(2, 1, 1)] # NonFinite

\* the two-body state made of bodies i and j of a three-body state
PairState(st, i, j) ==
    <<st[PosSlot(i, 1)], st[PosSlot(i, 2)], st[PosSlot(i, 3)],
      st[PosSlot(j, 1)], st[PosSlot(j, 2)], st[PosSlot(j, 3)],
      st[VelSlot(3, i, 1)], st[VelSlot(3, i, 2)], st[VelSlot(3, i, 3)],
      st[VelSlot(3, j, 1)], st[VelSlot(3, j, 2)], st[VelSlot(3, j, 3)]>>

\* C11: at every recorded state of a three-body solve the force model returns
\* the velocities and, for each body, the sum over the two other bodies of the
\* acceleration the two-body model gives for that pair; the three mass-weighted
\* accelerations sum to zero in every component.
C11_ThreeBodyForce ==
    (pc = "done" /\ solver = "ThreeBody") =>
        \A k \in 1..Len(hist) :
            LET st == hist[k]
                m == args.massList
                d == ForceModel("ThreeBody", m, st)
            IN  /\ Len(d) = 18
                /\ \A q \in 1..9 : d[q] = st[q + 9]
                /\ \A b \in 1..3, c \in 1..3 :
                      LET others == (1..3) \ {b}
                          o1 == CHOOSE o \in others : \A x \in others : o <= x
                          o2 == CHOOSE o \in others : o # o1
                      IN  d[VelSlot(3, b, c)] =
                            FAdd(TwoCoupledBodies(<<m[b], m[o1]>>, PairState(st, b, o1))[6 + c],
                                 TwoCoupledBodies(<<m[b], m[o2]>>, PairState(st, b, o2))[6 + c])
                /\ \A c \in 1..3 :
                      /\ d[VelSlot(3, 1, c)] # NonFinite
                      /\ FAdd(FAdd(FMul(F(m[1]), d[VelSlot(3, 1, c)]),
                                   FMul(F(m[2]), d[VelSlot(3, 2, c)])),
                              FMul(F(m[3]), d[VelSlot(3, 3, c)])) = 0

C11_Witness ==
    /\ pc = "done"
    /\ solver = "ThreeBody"
    /\ args.massList = <<MaxMass, 1, 1>>
    /\ Len(hist) = NBodySteps + 1
    /\ LET d == ForceModel("ThreeBody", args.massList, hist[NBodySteps + 1])
       IN  /\ \A q \in 10..18 : d[q] # NonFinite /\ d[q] # 0
           /\ d[10] # d[13]
           /\ FAdd(FAdd(FMul(F(MaxMass), d[10]), d[13]), d[16]) = 0

\* the recorded history hs is the one call c of solver sv produces when nothing
\* but its own steps touches the state: the initial state, then one classical
\* RK4 update per step
SoloHistory(sv, c, hs) ==
    /\ Len(hs) = StepCount(sv) + 1
    /\ hs[1] = InitialState(sv, c.ic)
    /\ \A k \in 1..(Len(hs) - 1) :
          hs[k + 1] = ClassicalRK4(sv, c.massList, hs[k], SpecStep(sv, c))

\* C12: a force model call (the first stage of a step, which is handed the
\* state itself, or a call made between two steps) returns the derivative of
\* (masses, state) and leaves the state vector, the masses and every other
\* variable of the solve as they were, so the returned trajectory is the one of
\* the inputs alone however many extra calls were made.
C12_Pure ==
    [][/\ (pc = "run" /\ pc' = "run" /\ stage = 0 /\ stage' = 1) =>
             /\ ks' = <<Derivative(solver, args.massList, s)>>
             /\ UNCHANGED <<s, args, h, t, hist, time, ret, evals>>
       /\ (pc = "run" /\ pc' = "run" /\ evals' # evals) =>
             UNCHANGED <<s, args, h, t, hist, time, ret, stage, ks>>
       /\ pc' = "done" =>
             /\ SoloHistory(solver', args', hist')
             /\ ret' = ResultOf(solver', hist', time')]_vars

C12_Witness ==
    /\ pc = "done"
    /\ solver = "ThreeBody"
    /\ evals = MaxExtraCalls
    /\ evals > 0
    /\ SoloHistory(solver, args, hist)
    /\ hist[NBodySteps + 1] # hist[1]

\* C13: the state changes only at the end of a step, when the four stage
\* derivatives computed from the recorded state of this step are all there; it
\* is then replaced in every component by the classical RK4 update of that
\* recorded state and recorded once, so that every recorded sample is the whole
\* state of one step.
C13_AtomicStep ==
    [][/\ (pc = "run" /\ pc' = "run") =>
             /\ s = hist[Len(hist)]
             /\ stage = Len(ks)
             /\ \A i \in 1..Len(ks) :
                   ks[i] = Derivative(solver, args.massList,
                                      StagePoint(solver, hist[Len(hist)], h, SubSeq(ks, 1, i - 1)))
             /\ (s' # s \/ hist' # hist) =>
                   /\ stage = 4
                   /\ stage' = 0
                   /\ Len(s') = Len(s)
                   /\ s' = ClassicalRK4(solver, args.massList, s, SpecStep(solver, args))
                   /\ hist' = Append(hist, s')
       /\ pc' = "done" => SoloHistory(solver', args', hist')]_vars

C13_Witness ==
    /\ pc = "run"
    /\ solver = "TwoBody"
    /\ stage = 0
    /\ Len(hist) = 3
    /\ s = hist[3]
    /\ hist[3] = ClassicalRK4(solver, args.massList, hist[2], SpecStep(solver, args))
    /\ \A q \in 1..12 : hist[3][q] # hist[2][q]

\* sample k of a returned n-body result holds a non-finite value
NonFiniteAt(r, n, k) == \E b \in 1..(2 * n), c \in 1..3 : r[b][c][k] = NonFinite

\* two bodies are at the same finite position in sample k
CoincideAt(r, n, k) ==
    \E i \in 1..n, j \in 1..n :
        /\ i < j
        /\ \A c \in 1..3 : r[i][c][k] = r[j][c][k] /\ r[i][c][k] # NonFinite

\* C14: in the result of an n-body solve a sample after one that holds a
\* non-finite value holds one too, the sample after one in which two bodies
\* coincide holds one, and all stepCount + 1 samples are returned.
C14_NonFinitePropagates ==
    (pc = "done" /\ solver \in {"TwoBody", "ThreeBody"}) =>
        LET n == Bodies(solver)
            last == StepCount(solver) + 1
        IN  /\ OutLens(solver, ret) = {last}
            /\ \A k \in 1..last, k2 \in 1..last :
                  (k < k2 /\ NonFiniteAt(ret, n, k)) => NonFiniteAt(ret, n, k2)
            /\ \A k \in 1..(last - 1) :
                  CoincideAt(ret, n, k) => NonFiniteAt(ret, n, k + 1)

C14_Witness ==
    /\ pc = "done"
    /\ solver = "TwoBody"
    /\ args.ic[1] = args.ic[2]
    /\ ~NonFiniteAt(ret, 2, 1)
    /\ \A k \in 2..(NBodySteps + 1) : NonFiniteAt(ret, 2, k)
    /\ Len(ret[5]) = NBodySteps + 1

\* C15: the two- and three-body drivers have no error outcome: whatever the
\* masses and the initial separation, the stepper is entered with the masses
\* and the initial conditions as passed, and the call returns a trajectory of
\* stepCount + 1 samples that starts at those initial conditions.
C15_NoErrorPath ==
    /\ pc \in {"idle", "run", "done"}
    /\ (pc \in {"run", "done"}) =>
          /\ hist[1] = InitialState(solver, args.ic)
          /\ \A k \in 1..(Len(hist) - 1) :
                hist[k + 1] = ClassicalRK4(solver, args.massList, hist[k], SpecStep(solver, args))
    /\ pc = "done" =>
          /\ OutLens(solver, ret) = {StepCount(solver) + 1}
          /\ \A b \in 1..(2 * Bodies(solver)), c \in 1..3 : ret[b][c][1] = args.ic[b][c]

C15_Witness ==
    /\ pc = "done"
    /\ solver = "TwoBody"
    /\ args.massList[1] = 0
    /\ args.ic[1] = args.ic[2]
    /\ Len(ret[5]) = NBodySteps + 1
    /\ ret[2][1][1] = 0
    /\ NonFiniteAt(ret, 2, NBodySteps + 1)

\* the time sequence ts is the grid of call c alone
SoloTimes(sv, c, ts) ==
    \A k \in 1..Len(ts) : ts[k] = RAdd(c.t0, RMul(R(k - 1), SpecStep(sv, c)))

\* the history recorded so far is the beginning of the history of call c alone
SoloPrefix(sv, c, hs) ==
    /\ Len(hs) <= StepCount(sv) + 1
    /\ hs[1] = InitialState(sv, c.ic)
    /\ \A k \in 1..(Len(hs) - 1) :
          hs[k + 1] = ClassicalRK4(sv, c.massList, hs[k], SpecStep(sv, c))

\* C16: with the steps of two solve calls interleaved in any order, each call
\* records and returns the trajectory and the time grid it produces alone.
C16_NoInterference ==
    /\ pc = "run" => SoloPrefix(solver, args, hist) /\ SoloTimes(solver, args, time)
    /\ pc = "done" =>
          /\ SoloHistory(solver, args, hist)
          /\ ret = ResultOf(solver, hist, time)
          /\ SoloTimes(solver, args, TimeSeq(solver, ret))
    /\ other.pc = "run" =>
          /\ SoloPrefix(other.solver, other.args, other.hist)
          /\ SoloTimes(other.solver, other.args, other.time)
    /\ other.pc = "done" =>
          /\ SoloHistory(other.solver, other.args, other.hist)
          /\ other.ret = ResultOf(other.solver, other.hist, other.time)
          /\ SoloTimes(other.solver, other.args, TimeSeq(other.solver, other.ret))

C16_Witness ==
    /\ pc = "run"
    /\ other.pc = "run"
    /\ other.solver = "TwoBody"
    /\ other.args.tn # args.tn
    /\ other.h # h
    /\ Len(hist) = 3
    /\ Len(other.hist) = 2
    /\ SoloPrefix(other.solver, other.args, other.hist)
    /\ other.hist[2] # hist[2]

\* ---------------------------------------------------------------------
\* C17.  Whenever Calculate has run, the two-body solver was invoked
\* with tn > t0 and with both masses strictly positive, whether the
\* texts of the line edits were typed or written by the Random buttons.
\* The line edits take any text and Calculate converts it unchecked, so
\* this is stated as the property the window does not have.
C17_SolverPreconditions ==
    posPlot.shown =>
        /\ posPlot.solved.tn > posPlot.solved.t0
        /\ posPlot.solved.masses[1] > 0
        /\ posPlot.solved.masses[2] > 0

\* ---------------------------------------------------------------------
\* C18.  After TwoBodyCanvas.Plot has returned, the masses list and the
\* initial-condition matrix of the caller hold the values they held when
\* the call was made, in the same order.  Plot assigns masses[0] and
\* masses[1] in the caller's list when masses[1] > masses[0], so this is
\* stated as the property Plot does not have.
C18_InputsUnchanged ==
    posPlot.shown =>
        /\ posPlot.masses = posPlot.given.masses
        /\ posPlot.ic = posPlot.given.ic

\* ---------------------------------------------------------------------
\* C20.  In every state of the Two Body window, once all handlers have
\* returned, the Calculate button is enabled if and only if every line
\* edit of mass 1 and of mass 2 and the time-span line edit hold text and
\* at least one plot check box is checked.
C20_CalculateEnabled ==
    win.enabled[4] <=>
        /\ MassParams(win, 1)
        /\ MassParams(win, 2)
        /\ win.timeSpan # ""
        /\ win.checked # {}

\* The button is enabled for an arbitrary and a catalogued object with
\* every plot selected.
C20_Witness ==
    /\ win.enabled[4]
    /\ win.index = <<1, 2>>
    /\ win.checked = 0..(PlotBoxes - 1)

\* every line edit of both masses and the time-span line edit hold text
Complete(w) ==
    /\ MassParams(w, 1)
    /\ MassParams(w, 2)
    /\ w.timeSpan # ""

\* ---------------------------------------------------------------------
\* C21.  In every state of the Two Body window, once all handlers have
\* returned, a checked plot check box implies that every line edit of
\* both masses and the time-span line edit hold text; while one of them
\* is empty no box is checked and the boxes are disabled.
C21_NoBoxWhileIncomplete ==
    /\ win.checked # {} => Complete(win)
    /\ ~Complete(win) => win.checked = {} /\ ~win.enabled[3]

\* Both masses are complete and the time-span line edit is empty: no
\* box is checked and the boxes are disabled.
C21_Witness ==
    /\ MassParams(win, 1)
    /\ MassParams(win, 2)
    /\ win.timeSpan = ""
    /\ win.checked = {}
    /\ ~win.enabled[3]

\* ---------------------------------------------------------------------
\* C22.  In every state of the Two Body window, once all handlers have
\* returned, the time-span line edit and its Clear and Random buttons
\* are enabled if and only if one of the two combo boxes is at a
\* non-zero index, and with both combo boxes at index 0 the time-span
\* text is empty.
C22_TimeSpanEnabled ==
    /\ win.enabled[1] <=> (win.index[1] # 0 \/ win.index[2] # 0)
    /\ win.index = <<0, 0>> => win.timeSpan = ""

\* Both combo boxes are back at index 0 after a plot was calculated from
\* a form with a time span: the time span is empty and disabled.
C22_Witness ==
    /\ posPlot.shown
    /\ posPlot.solved.tn > 0
    /\ win.index = <<0, 0>>
    /\ win.timeSpan = ""
    /\ ~win.enabled[1]

\* ---------------------------------------------------------------------
\* C23.  When RandomPlots returns, at least one plot check box is
\* checked, whatever the random draws were.  With no box picked,
\* random.randint(0, 8) can draw the index of the Select All push
\* button, so this is stated as the property RandomPlots does not have.
C23_OneBoxChecked ==
    [][(\E p \in PlotDraws : ClickRandomPlots(p)) => win'.checked # {}]_vars

\* ---------------------------------------------------------------------
\* C24.  When RandomMass1 or RandomMass2 returns, the combo box of the
\* mass is at the drawn index and its line edits all hold text: the name
\* and mass of the object at that index, or the mass drawn for the
\* arbitrary object.  The line edits are only written through the slot
\* of an index change, which is not run when the drawn index is the
\* current one, so this is stated as the property the handlers do not
\* have.
C24_Randomized ==
    [][\A b \in 1..2, d \in MassDraws :
          ClickRandomMass(b, d) =>
              /\ win'.index[b] = d[1]
              /\ MassParams(win', b)
              /\ d[1] # 1 => win'.name[b] = cbItems[d[1] + 1]
              /\ win'.mass[b] = IF d[1] = 1 THEN d[2]
                                ELSE MASSESARR(d[1])]_vars

C26_InputsConvert ==
    win.enabled[4] =>
        /\ IsNum(win.mass[1])
        /\ IsNum(win.mass[2])
        /\ IsNum(win.timeSpan)

\* 1.1 times the maximum of direction d over all time samples of both
\* trajectories, in tenths
Reach(d) ==
    11 * Max({axes.mass1Pos[d][k] : k \in 1..Samples}
             \cup {axes.mass2Pos[d][k] : k \in 1..Samples})

\* ---------------------------------------------------------------------
\* C27.  The limits set on an axis showing direction d are -L and +L,
\* with L 1.1 times the maximum of direction d over all time samples of
\* both position lists, so that every sample with non-negative
\* coordinates lies inside them.  The source takes pos[d] of each
\* direction list, the d-th time sample, so this is stated as the
\* property the plots do not have.
C27_AxisLimits ==
    axes.drawn =>
        /\ axes.xlim = <<0 - Reach(axes.iDirection), Reach(axes.iDirection)>>
        /\ axes.ylim = <<0 - Reach(axes.jDirection), Reach(axes.jDirection)>>

\* what Plot was given of body b: mass, name, rows of the initial
\* conditions, and the lists the solver returns for it
GivenBody(b) ==
    [mass |-> posPlot.given.masses[b],
     name |-> IF b = 1 THEN posPlot.given.mass1Name
              ELSE posPlot.given.mass2Name,
     pos0 |-> posPlot.given.ic[b],
     vel0 |-> posPlot.given.ic[b + 2],
     pos |-> <<posPlot.given.ic[b]>>,
     vel |-> <<posPlot.given.ic[b + 2]>>]

\* what Plot draws and annotates as mass b
DrawnBody(b) ==
    [mass |-> posPlot.drawn.masses[b],
     name |-> IF b = 1 THEN posPlot.drawn.mass1Name
              ELSE posPlot.drawn.mass2Name,
     pos0 |-> posPlot.drawn.ic[b],
     vel0 |-> posPlot.drawn.ic[b + 2],
     pos |-> IF b = 1 THEN posPlot.drawn.mass1Pos ELSE posPlot.drawn.mass2Pos,
     vel |-> IF b = 1 THEN posPlot.drawn.mass1Vel ELSE posPlot.drawn.mass2Vel]

\* ---------------------------------------------------------------------
\* C28.  Plot exchanges the two bodies as a unit: with
\* masses[1] > masses[0] everything presented as mass 1 (name, mass,
\* position and velocity lists, rows of the initial conditions) comes
\* from the second body given and everything presented as mass 2 from
\* the first; otherwise nothing is exchanged; and the body presented as
\* mass 1 is never the lighter one.
C28_SwapAsUnit ==
    posPlot.shown =>
        /\ IF posPlot.given.masses[2] > posPlot.given.masses[1]
           THEN DrawnBody(1) = GivenBody(2) /\ DrawnBody(2) = GivenBody(1)
           ELSE DrawnBody(1) = GivenBody(1) /\ DrawnBody(2) = GivenBody(2)
        /\ DrawnBody(1).mass >= DrawnBody(2).mass

\* The arbitrary object of mass 1 was given first and the Sun second,
\* and the Sun is presented as mass 1.
C28_Witness ==
    /\ posPlot.shown
    /\ posPlot.given.mass1Name = "Arbitrary Object"
    /\ posPlot.given.masses = <<1, 2>>
    /\ posPlot.drawn.mass1Name = "Sun"

\* ---------------------------------------------------------------------
\* C29.  A click on Calculate opens a plot window of a type if and only
\* if the check box of that type was checked at the click; the box at
\* index 0 is '2D Position Plot', the type Plot draws for plotType 0.
\* Calculate opens the one window of type 0 whatever the boxes are, so
\* this is stated as the property Calculate does not have.
C29_SelectedPlots ==
    [][ClickCalculate =>
          \A plotType \in 0..(PlotBoxes - 1) :
              (posPlot'.shown /\ posPlot'.plotType = plotType)
                  <=> plotType \in win.checked]_vars

====
